---- MODULE Spec2Model ----
(***************************************************************************)
(* Progression and ranking engine of ThaiFightTalk: the users table with   *)
(* its XP / level / streak columns, the award_xp SQL function, the         *)
(* lesson-completion and streak routes, badge awarding into user_badges,   *)
(* and the leaderboard route.                                              *)
(***************************************************************************)
EXTENDS Integers, Sequences, FiniteSets, TLC

\* ------------------------------------------------------------------ bounds
NumAccounts == 2
MaxCalls == 2
TicksPerHour == 2
MaxTicks == 2
MaxStreak == 3
MaxPoints == 1700
MaxLevel == 6
MaxReads == 2

Accounts == 1..NumAccounts
\* Ids a caller can pass as p_user_id: those of the accounts and one that
\* names no row of users.
NoSuchUser == NumAccounts + 1
UserIds == Accounts \cup {NoSuchUser}
Calls == 1..MaxCalls
None == 0

\* Arguments the callers pass as p_xp_amount (any INTEGER is accepted by the
\* signature of award_xp).
XPAmounts == {-10, 100}

\* Content rows the completion route reads: lessons.xp_reward per lesson, and
\* the score a client submits for a lesson answered in full.
Lessons == {1, 2}
xp_reward(l) == IF l = 1 THEN 100 ELSE 20
Scores == {100}

\* badges table.  Rows 1 and 2 carry criteria in the shape evaluateCriteria
\* reads ({type, count}); row 3 is the seeded 'First Step' row, whose
\* criteria carry "value" and no "count".
Absent == -1
badges ==
    << [id |-> 1, criteria |-> [type |-> "lessons_completed", count |-> 1, value |-> Absent]],
       [id |-> 2, criteria |-> [type |-> "xp", count |-> 100, value |-> Absent]],
       [id |-> 3, criteria |-> [type |-> "lessons_completed", count |-> Absent, value |-> 1]] >>
BadgeIds == {badges[i].id : i \in DOMAIN badges}

\* --------------------------------------------------------------- level
XPPerLevelSquare == 100

\* calculate_level: FLOOR(SQRT(xp / 100.0)) + 1; SQRT of a negative number
\* raises, which callers test with calculate_level_raises.
calculate_level_raises(xp) == xp < 0

calculate_level(xp) ==
    (CHOOSE r \in 0..xp :
        /\ r * r * XPPerLevelSquare <= xp
        /\ (r + 1) * (r + 1) * XPPerLevelSquare > xp) + 1

\* calculateLevel: if (xp < 0) return 1; Math.floor(Math.sqrt(xp / 100)) + 1
\* First, the function with Math.round in the place of Math.floor: r is
\* the integer with r - 1/2 <= sqrt(xp / 100) < r + 1/2.
calculateLevel_Round(xp) ==
    IF xp < 0 THEN 1
    ELSE (CHOOSE r \in 0..(xp + 1) :
            /\ (r = 0 \/ (2 * r - 1) * (2 * r - 1) * XPPerLevelSquare <= 4 * xp)
            /\ (2 * r + 1) * (2 * r + 1) * XPPerLevelSquare > 4 * xp) + 1

calculateLevel(xp) ==
    IF xp < 0 THEN 1
    ELSE (CHOOSE r \in 0..xp :
            /\ r * r * XPPerLevelSquare <= xp
            /\ (r + 1) * (r + 1) * XPPerLevelSquare > xp) + 1

\* xpForNextLevel: nextLevel = currentLevel + 1; (nextLevel - 1) ** 2 * 100
xpForNextLevel(currentLevel) ==
    LET nextLevel == currentLevel + 1
    IN (nextLevel - 1) * (nextLevel - 1) * XPPerLevelSquare

\* xpForLevel: if (level <= 1) return 0; (level - 1) ** 2 * 100
\* First, the function with a linear formula.
xpForLevel_Linear(level) ==
    IF level <= 1 THEN 0
    ELSE (level - 1) * XPPerLevelSquare

xpForLevel(level) ==
    IF level <= 1 THEN 0
    ELSE (level - 1) * (level - 1) * XPPerLevelSquare

\* xp_for_next_level: current_level * current_level * 100
xp_for_next_level(current_level) == current_level * current_level * XPPerLevelSquare

\* -------------------------------------------------------------- streak
SameDayHours == 24
NextDayHours == 48

\* hoursSince = (now - lastDate) / (1000 * 60 * 60), a real number: with
\* instants counted in ticks, hoursSince < h exactly when the elapsed ticks
\* are fewer than h * TicksPerHour.
HoursSinceBelow(t, last, h) == (t - last) < h * TicksPerHour

\* lastDate = typeof lastActivity === 'string' ? new Date(lastActivity)
\*                                              : lastActivity
lastDate(lastActivity) ==
    IF lastActivity.kind = "string" THEN lastActivity.iso ELSE lastActivity.date

\* calculateStreak with the 24-hour boundary counted into the same day.
calculateStreak_SameDayInclusive(lastActivity, currentStreak, t) ==
    IF (t - lastDate(lastActivity)) <= SameDayHours * TicksPerHour
    THEN [streak |-> currentStreak, broken |-> FALSE]
    ELSE IF HoursSinceBelow(t, lastDate(lastActivity), NextDayHours)
         THEN [streak |-> currentStreak + 1, broken |-> FALSE]
         ELSE [streak |-> 1, broken |-> TRUE]

calculateStreak(lastActivity, currentStreak, t) ==
    IF HoursSinceBelow(t, lastDate(lastActivity), SameDayHours)
    THEN [streak |-> currentStreak, broken |-> FALSE]
    ELSE IF HoursSinceBelow(t, lastDate(lastActivity), NextDayHours)
         THEN [streak |-> currentStreak + 1, broken |-> FALSE]
         ELSE [streak |-> 1, broken |-> TRUE]

\* --------------------------------------------------------------- state
VARIABLES
    users,        \* users table: one row per account
    user_lessons, \* user_lessons table, keyed by its UNIQUE(user_id, lesson_id)
    user_badges,  \* user_badges table: the rows in insertion order
    now,          \* wall clock (NOW() / new Date()), in ticks
    call,         \* per request: position and local variables
    awarded,      \* history: sum of XP amounts of the committed calls per account
    ticks,        \* history: number of clock advances
    commits,      \* history: number of writes applied to the users table
    fn,           \* arguments and result of a library function under test
    subscriptions \* subscriptions table: the plan of the row per user_id

vars == <<users, user_lessons, user_badges, now, call, awarded, ticks, commits, fn,
          subscriptions>>

\* Row inserted for a new account: xp DEFAULT 0, streak DEFAULT 0,
\* current_level DEFAULT 1, last_activity and created_at DEFAULT NOW().
NewUser(t) ==
    [xp |-> 0, streak |-> 0, current_level |-> 1,
     last_activity |-> t, created_at |-> t]

\* user_lessons row absent / present (attempts and last_attempt are read by
\* none of the operations below).
NoLesson == [completed |-> FALSE, score |-> Absent]

\* Requests are numbered in the order they arrive.
Arrives(c) ==
    /\ call[c].pc = "idle"
    /\ \A d \in Calls : d < c => call[d].pc # "idle"

\* History: every earlier request had returned when request c arrived.
AfterPrevious(c) ==
    \A d \in Calls : d < c => call[d].pc \in {"done", "failed"}

IdleCall ==
    [pc |-> "idle", op |-> "none", uid |-> None, amount |-> 0,
     v_old_xp |-> 0, v_old_level |-> 0, v_new_xp |-> 0, v_new_level |-> 0,
     leveled_up |-> FALSE, found |-> FALSE, rows |-> 0,
     lesson |-> None, score |-> 0, user_xp |-> 0, ret_level |-> 0,
     pending |-> <<>>, newBadges |-> <<>>, satisfied |-> {}, failed |-> {},
     branch |-> "none", streak |-> 0, at |-> 0, after_prev |-> FALSE,
     page |-> 0, limit |-> 0, data |-> <<>>, profile_xp |-> 0,
     current_user_rank |-> 0, total |-> 0, ver_lo |-> 0, ver_hi |-> 0,
     reads |-> 0, seen_xp |-> Absent,
     catalog |-> <<>>, badge_list |-> <<>>,
     session |-> "none", status |-> 0, code |-> "none", queries |-> 0,
     forwarded |-> FALSE, userLevel |-> 0, enrichedCamps |-> <<>>,
     seen_unlocked |-> {}, shown |-> <<>>, in_turn |-> FALSE, ver_first |-> 0]

NoFn == [name |-> "none"]

\* subscriptions table: user_id is UNIQUE, plan is one of the CHECK values;
\* no statement of the schema inserts a row when an account is created.
NoPlan == "none"
Plans == {"free", "pro", "gym_edition"}
NoSubscriptions == [u \in Accounts |-> NoPlan]

Init ==
    /\ users = [u \in Accounts |-> NewUser(u)]
    /\ user_lessons = [k \in Accounts \X Lessons |-> NoLesson]
    /\ user_badges = <<>>
    /\ now = NumAccounts
    /\ call = [c \in Calls |-> IdleCall]
    /\ subscriptions = NoSubscriptions
    /\ awarded = [u \in Accounts |-> 0]
    /\ ticks = 0
    /\ commits = 0
    /\ fn = NoFn

\* ------------------------------------------------------------ award_xp
\* SELECT xp, current_level INTO v_old_xp, v_old_level; v_new_xp := ...;
\* v_new_level := calculate_level(v_new_xp).  The statement reads the latest
\* committed row and takes no lock.
award_xp_select(c, u, amt) ==
    /\ Arrives(c)
    /\ IF u \in Accounts
       THEN LET old_xp == users[u].xp
                old_level == users[u].current_level
                new_xp == old_xp + amt
            IN IF calculate_level_raises(new_xp)
               THEN call' = [call EXCEPT ![c] =
                       [@ EXCEPT !.pc = "failed", !.op = "award_xp", !.uid = u,
                                 !.amount = amt, !.found = TRUE,
                                 !.after_prev = AfterPrevious(c),
                                 !.v_old_xp = old_xp,
                                 !.v_old_level = old_level, !.v_new_xp = new_xp]]
               ELSE call' = [call EXCEPT ![c] =
                       [@ EXCEPT !.pc = "update", !.op = "award_xp", !.uid = u,
                                 !.amount = amt, !.found = TRUE,
                                 !.after_prev = AfterPrevious(c),
                                 !.v_old_xp = old_xp,
                                 !.v_old_level = old_level, !.v_new_xp = new_xp,
                                 !.v_new_level = calculate_level(new_xp)]]
       \* No row: SELECT INTO sets both variables to NULL and raises
       \* nothing; NULL + p_xp_amount and calculate_level(NULL) are NULL.
       ELSE call' = [call EXCEPT ![c] =
               [@ EXCEPT !.pc = "update", !.op = "award_xp", !.uid = u,
                         !.amount = amt, !.found = FALSE,
                         !.after_prev = AfterPrevious(c),
                         !.v_old_xp = Absent, !.v_old_level = Absent,
                         !.v_new_xp = Absent, !.v_new_level = Absent]]
    /\ UNCHANGED <<subscriptions, users, user_lessons, user_badges, now, awarded, ticks, commits, fn>>

\* The third column of the row award_xp returns: (v_new_level > v_old_level).
\* First, the comparison that also counts a level that stayed as it was.
LeveledUp_NotBelow(v_new_level, v_old_level) == v_new_level >= v_old_level

LeveledUp(v_new_level, v_old_level) == v_new_level > v_old_level

\* UPDATE users SET xp = v_new_xp, current_level = v_new_level WHERE id = ...;
\* RETURN QUERY SELECT v_new_xp, v_new_level, (v_new_level > v_old_level);
\* the function's transaction commits with the statement that called it.
\* First, the function whose UPDATE has lost its WHERE clause.
award_xp_update_NoWhere(c) ==
    /\ call[c].pc = "update"
    /\ call[c].op = "award_xp"
    /\ IF call[c].found
       THEN LET u == call[c].uid IN
            /\ users' = [v \in Accounts |->
                   [users[v] EXCEPT !.xp = call[c].v_new_xp,
                                    !.current_level = call[c].v_new_level]]
            /\ awarded' = [awarded EXCEPT ![u] = @ + call[c].amount]
            /\ commits' = commits + 1
            /\ call' = [call EXCEPT ![c] =
                  [@ EXCEPT !.pc = "done", !.rows = 1,
                            !.leveled_up = LeveledUp(call[c].v_new_level,
                                                   call[c].v_old_level)]]
       ELSE /\ call' = [call EXCEPT ![c] = [@ EXCEPT !.pc = "done", !.rows = 1]]
            /\ UNCHANGED <<subscriptions, users, awarded, commits>>
    /\ UNCHANGED <<subscriptions, user_lessons, user_badges, now, ticks, fn>>

award_xp_update(c) ==
    /\ call[c].pc = "update"
    /\ call[c].op = "award_xp"
    /\ IF call[c].found
       THEN LET u == call[c].uid IN
            /\ users' = [users EXCEPT ![u] =
                   [@ EXCEPT !.xp = call[c].v_new_xp,
                             !.current_level = call[c].v_new_level]]
            /\ awarded' = [awarded EXCEPT ![u] = @ + call[c].amount]
            /\ commits' = commits + 1
            /\ call' = [call EXCEPT ![c] =
                  [@ EXCEPT !.pc = "done", !.rows = 1,
                            !.leveled_up = LeveledUp(call[c].v_new_level,
                                                   call[c].v_old_level)]]
       \* The UPDATE matches no row; RETURN QUERY still yields one row, whose
       \* three columns are NULL.
       ELSE /\ call' = [call EXCEPT ![c] = [@ EXCEPT !.pc = "done", !.rows = 1]]
            /\ UNCHANGED <<subscriptions, users, awarded, commits>>
    /\ UNCHANGED <<subscriptions, user_lessons, user_badges, now, ticks, fn>>

\* ------------------------------------- POST /lessons/:lessonId/complete
\* The handler has the caller's users row loaded (user.xp) when it starts.
complete_begin(c, u, l, sc) ==
    /\ Arrives(c)
    /\ call' = [call EXCEPT ![c] =
          [@ EXCEPT !.pc = "upsert", !.op = "complete", !.uid = u,
                    !.lesson = l, !.score = sc, !.user_xp = users[u].xp,
                    !.after_prev = AfterPrevious(c),
                    \* 2. xp_earned = lesson.xp_reward * (score / 100)
                    !.amount = (xp_reward(l) * sc) \div 100]]
    /\ UNCHANGED <<subscriptions, users, user_lessons, user_badges, now, awarded, ticks, commits, fn>>

\* 1. upsert user_lessons { completed: true, score }
complete_upsert(c) ==
    /\ call[c].pc = "upsert"
    /\ user_lessons' = [user_lessons EXCEPT ![<<call[c].uid, call[c].lesson>>] =
          [completed |-> TRUE, score |-> call[c].score]]
    /\ call' = [call EXCEPT ![c] = [@ EXCEPT !.pc = "xp"]]
    /\ UNCHANGED <<subscriptions, users, user_badges, now, awarded, ticks, commits, fn>>

\* 3. update users { xp: user.xp + xp_earned, last_activity: now } .select():
\* the returned row replaces the handler's user.
complete_update_xp(c) ==
    /\ call[c].pc = "xp"
    /\ LET u == call[c].uid
           new_xp == call[c].user_xp + call[c].amount
       IN /\ users' = [users EXCEPT ![u] =
                 [@ EXCEPT !.xp = new_xp, !.last_activity = now]]
          /\ awarded' = [awarded EXCEPT ![u] = @ + call[c].amount]
          /\ commits' = commits + 1
          /\ call' = [call EXCEPT ![c] =
                 [@ EXCEPT !.pc = "level", !.v_new_xp = new_xp,
                           !.ret_level = users[u].current_level,
                           !.streak = users[u].streak, !.at = now]]
    /\ UNCHANGED <<subscriptions, user_lessons, user_badges, now, ticks, fn>>

\* 4. newLevel = calculateLevel(user.xp); leveledUp = newLevel >
\* user.current_level; if (leveledUp) update users { current_level: newLevel }
complete_level(c) ==
    /\ call[c].pc = "level"
    /\ LET u == call[c].uid
           newLevel == calculateLevel(call[c].v_new_xp)
           leveledUp == newLevel > call[c].ret_level
       IN /\ users' = IF leveledUp
                      THEN [users EXCEPT ![u] = [@ EXCEPT !.current_level = newLevel]]
                      ELSE users
          /\ commits' = IF leveledUp THEN commits + 1 ELSE commits
          /\ call' = [call EXCEPT ![c] =
                 [@ EXCEPT !.pc = "badges", !.v_new_level = newLevel,
                           !.leveled_up = leveledUp]]
    /\ UNCHANGED <<subscriptions, user_lessons, user_badges, now, awarded, ticks, fn>>

\* The handler stops between two awaited statements (the request is
\* aborted, or a store error leaves `user` null and user.xp throws): each
\* statement before that point has committed on its own, none after it runs.
complete_fails(c) ==
    /\ call[c].op = "complete"
    /\ call[c].pc \in {"upsert", "xp", "level"}
    /\ call' = [call EXCEPT ![c] = [@ EXCEPT !.pc = "failed"]]
    /\ UNCHANGED <<subscriptions, users, user_lessons, user_badges, now, awarded, ticks, commits, fn>>

\* ------------------------------------------------ checkBadgeEligibility
\* evaluateCriteria(criteria, user): x >= undefined is false in JavaScript.
\* First, the evaluation that fires only when the stat equals the count.
evaluateCriteria_ExactCount(criteria, u) ==
    IF criteria.count = Absent THEN FALSE
    ELSE CASE criteria.type = "lessons_completed" ->
                Cardinality({l \in Lessons : user_lessons[<<u, l>>].completed})
                    = criteria.count
           [] criteria.type = "streak" -> users[u].streak = criteria.count
           [] criteria.type = "xp" -> users[u].xp = criteria.count
           [] OTHER -> FALSE

evaluateCriteria(criteria, u) ==
    IF criteria.count = Absent THEN FALSE
    ELSE CASE criteria.type = "lessons_completed" ->
                Cardinality({l \in Lessons : user_lessons[<<u, l>>].completed})
                    >= criteria.count
           [] criteria.type = "streak" -> users[u].streak >= criteria.count
           [] criteria.type = "xp" -> users[u].xp >= criteria.count
           [] OTHER -> FALSE

HasAward(u, b) ==
    \E i \in DOMAIN user_badges :
        user_badges[i].user_id = u /\ user_badges[i].badge_id = b

\* The badges in catalog order that the select of user (with user_lessons and
\* user_badges) finds neither earned nor ineligible.
\* First, the same scan without the alreadyEarned test.
EligibleFrom_IgnoreEarned(i, u) ==
    LET F[k \in 1..(Len(badges) + 1)] ==
            IF k > Len(badges) THEN <<>>
            ELSE IF evaluateCriteria(badges[k].criteria, u)
                 THEN <<badges[k].id>> \o F[k + 1]
                 ELSE F[k + 1]
    IN F[i]

EligibleFrom(i, u) ==
    LET F[k \in 1..(Len(badges) + 1)] ==
            IF k > Len(badges) THEN <<>>
            ELSE IF ~HasAward(u, badges[k].id) /\ evaluateCriteria(badges[k].criteria, u)
                 THEN <<badges[k].id>> \o F[k + 1]
                 ELSE F[k + 1]
    IN F[i]

\* History: the badges whose criteria evaluateCriteria finds met on the
\* selected user, earned or not.
CriteriaMet(u) ==
    {badges[k].id : k \in {j \in DOMAIN badges : evaluateCriteria(badges[j].criteria, u)}}

\* 5. const newBadges = await checkBadgeEligibility(userId): the select.
badge_read(c) ==
    /\ call[c].pc = "badges"
    /\ LET elig == EligibleFrom(1, call[c].uid) IN
       call' = [call EXCEPT ![c] =
          [@ EXCEPT !.pc = IF elig = <<>> THEN "done" ELSE "insert",
                    !.pending = elig,
                    !.satisfied = CriteriaMet(call[c].uid)]]
    /\ UNCHANGED <<subscriptions, users, user_lessons, user_badges, now, awarded, ticks, commits, fn>>

\* INSERT INTO user_badges (user_id, badge_id): PRIMARY KEY (user_id,
\* badge_id) rejects a second row for the pair; earned_at DEFAULT NOW().
\* The insert against a table without the primary key.
InsertUserBadge_NoKey(tbl, u, b, t) ==
    Append(tbl, [user_id |-> u, badge_id |-> b, earned_at |-> t])

InsertUserBadge(tbl, u, b, t) ==
    IF \E i \in DOMAIN tbl : tbl[i].user_id = u /\ tbl[i].badge_id = b
    THEN tbl
    ELSE Append(tbl, [user_id |-> u, badge_id |-> b, earned_at |-> t])

\* One turn of the loop: insert, then newBadges.push(badge); the result of
\* the insert is not inspected.  After the last badge the handler returns.
\* The turn with an insert whose unique violation is thrown to the handler.
badge_insert_ThrowOnConflict(c) ==
    /\ call[c].pc = "insert"
    /\ LET b == Head(call[c].pending) IN
       IF HasAward(call[c].uid, b)
       THEN /\ user_badges' = user_badges
            /\ call' = [call EXCEPT ![c] = [@ EXCEPT !.pc = "failed"]]
       ELSE /\ user_badges' = InsertUserBadge(user_badges, call[c].uid, b, now)
            /\ call' = [call EXCEPT ![c] =
                  [@ EXCEPT !.pc = IF Tail(call[c].pending) = <<>> THEN "done" ELSE "insert",
                            !.pending = Tail(@),
                            !.newBadges = Append(@, b)]]
    /\ UNCHANGED <<subscriptions, users, user_lessons, now, awarded, ticks, commits, fn>>

badge_insert(c) ==
    /\ call[c].pc = "insert"
    /\ LET b == Head(call[c].pending) IN
       /\ user_badges' = InsertUserBadge(user_badges, call[c].uid, b, now)
       /\ call' = [call EXCEPT ![c] =
              [@ EXCEPT !.pc = IF Tail(call[c].pending) = <<>> THEN "done" ELSE "insert",
                        !.pending = Tail(@),
                        !.newBadges = Append(@, b)]]
    /\ UNCHANGED <<subscriptions, users, user_lessons, now, awarded, ticks, commits, fn>>

\* The same turn when the store refuses the insert (row-level policy,
\* connection): supabase-js returns { error } without throwing, the loop
\* pushes the badge and goes on.
badge_insert_fails(c) ==
    /\ call[c].pc = "insert"
    /\ LET b == Head(call[c].pending) IN
       call' = [call EXCEPT ![c] =
          [@ EXCEPT !.pc = IF Tail(call[c].pending) = <<>> THEN "done" ELSE "insert",
                    !.pending = Tail(@),
                    !.newBadges = Append(@, b),
                    !.failed = @ \cup {b}]]
    /\ UNCHANGED <<subscriptions, users, user_lessons, user_badges, now, awarded, ticks, commits, fn>>

\* ------------------------------------------- POST /progress/streak
\* const now = new Date(); lastActivity = new Date(user.last_activity);
\* the branch is taken on the users row the handler has loaded.
streak_begin(c, u) ==
    /\ Arrives(c)
    /\ users[u].streak < MaxStreak
    /\ LET last == users[u].last_activity
           br == IF HoursSinceBelow(now, last, SameDayHours) THEN "same"
                 ELSE IF HoursSinceBelow(now, last, NextDayHours) THEN "next"
                 ELSE "reset"
       IN call' = [call EXCEPT ![c] =
              [@ EXCEPT !.pc = "streak", !.op = "streak", !.uid = u,
                        !.branch = br, !.at = now,
                        !.after_prev = AfterPrevious(c),
                        !.streak = CASE br = "same" -> users[u].streak
                                     [] br = "next" -> users[u].streak + 1
                                     [] OTHER -> 1]]
    /\ UNCHANGED <<subscriptions, users, user_lessons, user_badges, now, awarded, ticks, commits, fn>>

\* "same": return without a write; "next": update users { streak: newStreak };
\* "reset": update users { streak: 1 }.
streak_apply(c) ==
    /\ call[c].pc = "streak"
    /\ users' = IF call[c].branch = "same" THEN users
                ELSE [users EXCEPT ![call[c].uid] =
                        [@ EXCEPT !.streak = call[c].streak]]
    /\ commits' = IF call[c].branch = "same" THEN commits ELSE commits + 1
    /\ call' = [call EXCEPT ![c] = [@ EXCEPT !.pc = "done"]]
    /\ UNCHANGED <<subscriptions, user_lessons, user_badges, now, awarded, ticks, fn>>

\* ------------------------------------------------ GET /api/v1/leaderboard
DefaultLimit == 50
MaxLimit == 100
\* page and limit query parameters as the clients send them.
PageParams == {1, 2}
LimitParams == {1, 2, DefaultLimit, MaxLimit + 50}

Min(a, b) == IF a < b THEN a ELSE b

\* .order('xp', { ascending: false }): every sequence of all the rows with xp
\* non-increasing; the order of rows with equal xp is whatever the scan
\* yields.
OrderedByXp ==
    {p \in [1..NumAccounts -> Accounts] :
        /\ \A i, j \in 1..NumAccounts : i # j => p[i] # p[j]
        /\ \A i, j \in 1..NumAccounts : i < j => users[p[i]].xp >= users[p[j]].xp}

\* .range(from, to): rows from..to of the ordered result, counted from 0.
Range(p, from, to) ==
    [i \in 1..(Min(to + 1, NumAccounts) - from) |-> p[from + i]]

\* users.map((u, index) => ({ rank: (page - 1) * limit + index + 1, ... }))
LeaderboardEntries(rows, page, limit) ==
    [i \in 1..Len(rows) |->
        [rank |-> (page - 1) * limit + (i - 1) + 1,
         user_id |-> rows[i],
         xp |-> users[rows[i]].xp,
         level |-> users[rows[i]].current_level,
         streak |-> users[rows[i]].streak]]

\* limit = Math.min(parseInt(limit || '50'), 100); first query: the page.
leaderboard_page(c, viewer, pg, lim) ==
    /\ Arrives(c)
    /\ LET limit == Min(lim, MaxLimit) IN
       /\ (pg - 1) * limit < NumAccounts
       /\ \E p \in OrderedByXp :
             call' = [call EXCEPT ![c] =
                [@ EXCEPT !.pc = "lb_profile", !.op = "leaderboard",
                          !.uid = viewer, !.page = pg, !.limit = limit,
                          !.data = LeaderboardEntries(
                                      Range(p, (pg - 1) * limit, pg * limit - 1),
                                      pg, limit),
                          !.reads = 1,
                          !.shown = LeaderboardEntries(
                                      Range(p, (pg - 1) * limit, pg * limit - 1),
                                      pg, limit),
                          !.in_turn = (pg = 1), !.ver_first = commits,
                          !.ver_lo = commits, !.ver_hi = commits]]
    /\ UNCHANGED <<subscriptions, users, user_lessons, user_badges, now, awarded, ticks, commits, fn>>

\* History: the xp the response of request c shows for the viewer itself
\* (its own entry, when it is on the page), and the larger of two such
\* values.
OwnShown(c) ==
    IF \E i \in DOMAIN call[c].data : call[c].data[i].user_id = call[c].uid
    THEN call[c].data[CHOOSE i \in DOMAIN call[c].data :
                         call[c].data[i].user_id = call[c].uid].xp
    ELSE Absent

Max(a, b) == IF a > b THEN a ELSE b

\* The client that has its response sends the request again: the same
\* handler from its first query.  History: shown collects the entries of the
\* responses; in_turn tells that the pages asked for were 1, 2, ... with one
\* limit, and that no write was committed since the first of them.
leaderboard_again(c, pg, lim) ==
    /\ call[c].op = "leaderboard"
    /\ call[c].pc = "done"
    /\ call[c].reads < MaxReads
    /\ LET limit == Min(lim, MaxLimit) IN
       /\ (pg - 1) * limit < NumAccounts
       /\ \E p \in OrderedByXp :
             call' = [call EXCEPT ![c] =
                [@ EXCEPT !.pc = "lb_profile", !.page = pg, !.limit = limit,
                          !.data = LeaderboardEntries(
                                      Range(p, (pg - 1) * limit, pg * limit - 1),
                                      pg, limit),
                          !.reads = @ + 1,
                          !.seen_xp = Max(@, OwnShown(c)),
                          !.shown = @ \o LeaderboardEntries(
                                      Range(p, (pg - 1) * limit, pg * limit - 1),
                                      pg, limit),
                          !.in_turn = /\ @
                                      /\ pg = call[c].reads + 1
                                      /\ limit = call[c].limit
                                      /\ commits = call[c].ver_first,
                          !.ver_lo = commits, !.ver_hi = commits]]
    /\ UNCHANGED <<subscriptions, users, user_lessons, user_badges, now, awarded, ticks, commits, fn>>

\* select('xp').eq('id', user.id).single()
leaderboard_profile(c) ==
    /\ call[c].pc = "lb_profile"
    /\ call' = [call EXCEPT ![c] =
          [@ EXCEPT !.pc = "lb_count", !.profile_xp = users[call[c].uid].xp,
                    !.ver_hi = commits]]
    /\ UNCHANGED <<subscriptions, users, user_lessons, user_badges, now, awarded, ticks, commits, fn>>

\* count of users with xp > userProfile.xp; currentUserRank = count + 1
CountAbove(xp) == Cardinality({u \in Accounts : users[u].xp > xp})

leaderboard_count(c) ==
    /\ call[c].pc = "lb_count"
    /\ call' = [call EXCEPT ![c] =
          [@ EXCEPT !.pc = "lb_total",
                    !.current_user_rank = CountAbove(call[c].profile_xp) + 1,
                    !.ver_hi = commits]]
    /\ UNCHANGED <<subscriptions, users, user_lessons, user_badges, now, awarded, ticks, commits, fn>>

\* count of all users; the response is sent.
leaderboard_total(c) ==
    /\ call[c].pc = "lb_total"
    /\ call' = [call EXCEPT ![c] =
          [@ EXCEPT !.pc = "done", !.total = Cardinality(Accounts),
                    !.ver_hi = commits]]
    /\ UNCHANGED <<subscriptions, users, user_lessons, user_badges, now, awarded, ticks, commits, fn>>

\* --------------------------------------------------- LeaderboardPage
PageSize == 50

\* order('xp', desc).limit(50); rank: index + 1;
\* currentUserRank = findIndex(u => u.id === user.id) + 1
IndexOf(rows, u) ==
    IF \E i \in 1..Len(rows) : rows[i] = u
    THEN CHOOSE i \in 1..Len(rows) : rows[i] = u
    ELSE 0

LeaderboardPage(c, viewer) ==
    /\ Arrives(c)
    /\ \E p \in OrderedByXp :
          LET rows == Range(p, 0, PageSize - 1) IN
          call' = [call EXCEPT ![c] =
             [@ EXCEPT !.pc = "done", !.op = "page", !.uid = viewer,
                       !.page = 1, !.limit = PageSize,
                       !.data = LeaderboardEntries(rows, 1, PageSize),
                       !.current_user_rank = IndexOf(rows, viewer),
                       !.ver_lo = commits, !.ver_hi = commits]]
    /\ UNCHANGED <<subscriptions, users, user_lessons, user_badges, now, awarded, ticks, commits, fn>>

\* ------------------------------- GET /api/v1/badges and ProfilePage
\* The route and the page run the same three statements; the page asks for
\* no order and leaves earned_at undefined where the route puts null.
\* from('badges').select('*'): all the rows; .order('created_at') of the
\* route leaves rows inserted by one statement in any order.
BadgeOrders ==
    {p \in [1..Len(badges) -> BadgeIds] :
        \A i, j \in 1..Len(badges) : i # j => p[i] # p[j]}

GET_badges(c, viewer) ==
    /\ Arrives(c)
    /\ \E p \in BadgeOrders :
          call' = [call EXCEPT ![c] =
             [@ EXCEPT !.pc = "ub_select", !.op = "badges", !.uid = viewer,
                       !.catalog = p]]
    /\ UNCHANGED <<subscriptions, users, user_lessons, user_badges, now, awarded, ticks, commits, fn>>

\* from('user_badges').select('badge_id, earned_at').eq('user_id', user.id)
\* First, the select without the .eq filter.
UserBadgesOf_NoFilter(tbl, u) == tbl

UserBadgesOf(tbl, u) ==
    LET F[k \in 0..Len(tbl)] ==
            IF k = 0 THEN <<>>
            ELSE IF tbl[k].user_id = u THEN Append(F[k - 1], tbl[k])
                 ELSE F[k - 1]
    IN F[Len(tbl)]

\* userBadgeIds.has(badge.id); earnedAtMap.get(badge.id) || null (the page:
\* undefined): new Map(entries) keeps the last entry of a key.
EnrichedBadges(order, userBadges) ==
    [i \in 1..Len(order) |->
        LET hits == {k \in DOMAIN userBadges : userBadges[k].badge_id = order[i]}
        IN [id |-> order[i],
            earned |-> hits # {},
            earned_at |-> IF hits = {} THEN Absent
                          ELSE userBadges[CHOOSE k \in hits :
                                             \A m \in hits : m <= k].earned_at]]

user_badges_select(c) ==
    /\ call[c].pc = "ub_select"
    /\ call' = [call EXCEPT ![c] =
          [@ EXCEPT !.pc = "done",
                    !.badge_list = EnrichedBadges(call[c].catalog,
                                       UserBadgesOf(user_badges, call[c].uid))]]
    /\ UNCHANGED <<subscriptions, users, user_lessons, user_badges, now, awarded, ticks, commits, fn>>

\* Stores in which the first account completed lesson 1 when it was
\* created, through the completion route, and holds the two badges it earns.
FirstLessonDone(u) ==
    [NewUser(u) EXCEPT !.xp = xp_reward(1),
                       !.current_level = calculateLevel(xp_reward(1))]

AwardsOfStarted(started) ==
    LET F[u \in 0..NumAccounts] ==
            IF u = 0 THEN <<>>
            ELSE IF u \in started
                 THEN F[u - 1] \o <<[user_id |-> u, badge_id |-> 1, earned_at |-> u],
                                    [user_id |-> u, badge_id |-> 2, earned_at |-> u]>>
                 ELSE F[u - 1]
    IN F[NumAccounts]

InitList ==
    /\ \E started \in {{}, {1}} :
          /\ users = [u \in Accounts |->
                IF u \in started THEN FirstLessonDone(u) ELSE NewUser(u)]
          /\ user_lessons = [k \in Accounts \X Lessons |->
                IF k[1] \in started /\ k[2] = 1
                THEN [completed |-> TRUE, score |-> 100] ELSE NoLesson]
          /\ user_badges = AwardsOfStarted(started)
          /\ awarded = [u \in Accounts |-> IF u \in started THEN xp_reward(1) ELSE 0]
    /\ now = NumAccounts
    /\ call = [c \in Calls |-> IdleCall]
    /\ subscriptions = NoSubscriptions
    /\ ticks = 0
    /\ commits = 0
    /\ fn = NoFn

NextList ==
    \/ \E c \in Calls, u \in Accounts, l \in Lessons, sc \in Scores :
           complete_begin(c, u, l, sc)
    \/ \E c \in Calls : complete_upsert(c)
    \/ \E c \in Calls : complete_update_xp(c)
    \/ \E c \in Calls : complete_level(c)
    \/ \E c \in Calls : badge_read(c)
    \/ \E c \in Calls : badge_insert(c)
    \/ \E c \in Calls, u \in Accounts : GET_badges(c, u)
    \/ \E c \in Calls : user_badges_select(c)

SpecList == InitList /\ [][NextList]_vars

\* ------------------------------------------------------------- clock
TickGaps ==
    {1, SameDayHours * TicksPerHour - 1, SameDayHours * TicksPerHour,
     NextDayHours * TicksPerHour}

Tick(gap) ==
    /\ ticks < MaxTicks
    /\ now' = now + gap
    /\ ticks' = ticks + 1
    /\ UNCHANGED <<subscriptions, users, user_lessons, user_badges, call, awarded, commits, fn>>

\* ----------------------------------------- calculateStreak, called alone
ElapsedTicks == 0..((NextDayHours + 2) * TicksPerHour)

InitStreakFn ==
    /\ users = [u \in Accounts |-> NewUser(u)]
    /\ user_lessons = [k \in Accounts \X Lessons |-> NoLesson]
    /\ user_badges = <<>>
    /\ call = [c \in Calls |-> IdleCall]
    /\ subscriptions = NoSubscriptions
    /\ awarded = [u \in Accounts |-> 0]
    /\ ticks = 0
    /\ commits = 0
    /\ \E e \in ElapsedTicks, s \in 0..MaxStreak, k \in {"date", "string"} :
          /\ now = NumAccounts + e
          /\ fn = [name |-> "args",
                   lastActivity |-> IF k = "string"
                                    THEN [kind |-> k, iso |-> NumAccounts]
                                    ELSE [kind |-> k, date |-> NumAccounts],
                   currentStreak |-> s]

calculateStreak_call ==
    /\ fn.name = "args"
    /\ fn' = [name |-> "calculateStreak", lastActivity |-> fn.lastActivity,
              currentStreak |-> fn.currentStreak,
              result |-> calculateStreak(fn.lastActivity, fn.currentStreak, now)]
    /\ UNCHANGED <<subscriptions, users, user_lessons, user_badges, now, call, awarded, ticks, commits>>

NextStreakFn == calculateStreak_call

SpecStreakFn == InitStreakFn /\ [][NextStreakFn]_vars

\* ------------------------------------- checkBadgeCriteria, called alone
\* criteria of the rows that 003_seed_data.sql inserts into badges, in the
\* order of the INSERT.
SeedCriteria ==
    << [type |-> "lessons_completed", value |-> 1],
       [type |-> "lessons_per_day", value |-> 5],
       [type |-> "streak_days", value |-> 7],
       [type |-> "perfect_scores", value |-> 1],
       [type |-> "xp_threshold", value |-> 1000],
       [type |-> "camps_completed", value |-> 1],
       [type |-> "level_threshold", value |-> 10],
       [type |-> "sparring_sessions", value |-> 10] >>

checkBadgeCriteria(criteriaType, criteriaValue, userValue) ==
    CASE criteriaType \in {"xp_threshold", "level_threshold", "lessons_completed",
                           "perfect_scores", "camps_completed", "sparring_sessions"}
            -> userValue >= criteriaValue
      [] criteriaType = "streak_days" -> userValue >= criteriaValue
      [] OTHER -> FALSE

\* Values of the user's stat that matches the criterion.
UserValues == {0, 1, 4, 5, 6, 7, 9, 10, 999, 1000}

InitBadgeFn ==
    /\ users = [u \in Accounts |-> NewUser(u)]
    /\ user_lessons = [k \in Accounts \X Lessons |-> NoLesson]
    /\ user_badges = <<>>
    /\ now = NumAccounts
    /\ call = [c \in Calls |-> IdleCall]
    /\ subscriptions = NoSubscriptions
    /\ awarded = [u \in Accounts |-> 0]
    /\ ticks = 0
    /\ commits = 0
    /\ \E k \in DOMAIN SeedCriteria, v \in UserValues :
          fn = [name |-> "args", criteriaType |-> SeedCriteria[k].type,
                criteriaValue |-> SeedCriteria[k].value, userValue |-> v]

checkBadgeCriteria_call ==
    /\ fn.name = "args"
    /\ fn' = [name |-> "checkBadgeCriteria", criteriaType |-> fn.criteriaType,
              criteriaValue |-> fn.criteriaValue, userValue |-> fn.userValue,
              result |-> checkBadgeCriteria(fn.criteriaType, fn.criteriaValue,
                                            fn.userValue)]
    /\ UNCHANGED <<subscriptions, users, user_lessons, user_badges, now, call, awarded, ticks, commits>>

NextBadgeFn == checkBadgeCriteria_call

SpecBadgeFn == InitBadgeFn /\ [][NextBadgeFn]_vars

\* --------------------------- the level functions, called alone
\* Point counts below zero a caller can pass.
NegativePoints == {-100, -1}

InitLevelFn ==
    /\ users = [u \in Accounts |-> NewUser(u)]
    /\ user_lessons = [k \in Accounts \X Lessons |-> NoLesson]
    /\ user_badges = <<>>
    /\ now = NumAccounts
    /\ call = [c \in Calls |-> IdleCall]
    /\ subscriptions = NoSubscriptions
    /\ awarded = [u \in Accounts |-> 0]
    /\ ticks = 0
    /\ commits = 0
    /\ \/ \E xp \in 0..MaxPoints \cup NegativePoints : fn = [name |-> "xp", xp |-> xp]
       \/ \E level \in 1..MaxLevel : fn = [name |-> "level", level |-> level]

\* calculateLevel has no throw; calculate_level raises where SQRT does and
\* then yields no value.
calculateLevel_call ==
    /\ fn.name = "xp"
    /\ fn' = [name |-> "calculateLevel", xp |-> fn.xp,
              raised |-> FALSE,
              result |-> calculateLevel(fn.xp),
              sql_raised |-> calculate_level_raises(fn.xp),
              sql_result |-> IF calculate_level_raises(fn.xp) THEN Absent
                             ELSE calculate_level(fn.xp)]
    /\ UNCHANGED <<subscriptions, users, user_lessons, user_badges, now, call, awarded, ticks, commits>>

\* xpForLevel at a level and at the two levels after it; xpForNextLevel and
\* xp_for_next_level at the level.
xpForLevel_call ==
    /\ fn.name = "level"
    /\ fn' = [name |-> "xpForLevel", level |-> fn.level,
              result |-> xpForLevel(fn.level),
              result1 |-> xpForLevel(fn.level + 1),
              result2 |-> xpForLevel(fn.level + 2),
              next |-> xpForNextLevel(fn.level),
              sql_next |-> xp_for_next_level(fn.level)]
    /\ UNCHANGED <<subscriptions, users, user_lessons, user_badges, now, call, awarded, ticks, commits>>

NextLevelFn ==
    \/ calculateLevel_call
    \/ xpForLevel_call

SpecLevelFn == InitLevelFn /\ [][NextLevelFn]_vars

\* ------------------------------------------- route handlers: the user
\* supabase.auth.getUser(): a request with a valid session cookie yields the
\* user and no error; one with no cookie, or with an expired one, yields
\* user null and an error.
Sessions == {"none", "expired", "valid"}
Endpoints == {"camps", "camp_lessons", "lesson", "badges", "leaderboard", "sparring"}

getUser(session, u) ==
    [user |-> IF session = "valid" THEN u ELSE None,
     authError |-> session # "valid"]

\* if (authError || !user) in the camps, camp lessons and lesson routes;
\* if (!user) in the badges, leaderboard and sparring routes.
\* First, the routes with the check missing from the sparring route.
Unauthenticated_NotInSparring(e, auth) ==
    IF e \in {"camps", "camp_lessons", "lesson"}
    THEN auth.authError \/ auth.user = None
    ELSE e # "sparring" /\ auth.user = None

Unauthenticated(e, auth) ==
    IF e \in {"camps", "camp_lessons", "lesson"}
    THEN auth.authError \/ auth.user = None
    ELSE auth.user = None

\* The first statements of every handler: createClient, getUser, and the
\* 401 response when there is no user.
route_getUser(c, e, session, u) ==
    /\ Arrives(c)
    /\ LET auth == getUser(session, u) IN
       IF Unauthenticated(e, auth)
       THEN call' = [call EXCEPT ![c] =
               [@ EXCEPT !.pc = "done", !.op = e, !.session = session,
                         !.uid = auth.user, !.status = 401,
                         !.code = "UNAUTHORIZED"]]
       ELSE call' = [call EXCEPT ![c] =
               [@ EXCEPT !.pc = "authed", !.op = e, !.session = session,
                         !.uid = auth.user]]
    /\ UNCHANGED <<subscriptions, users, user_lessons, user_badges, now, awarded, ticks, commits, fn>>

\* The queries of the camp lessons, lesson, badges and leaderboard handlers
\* (their results are the subject of leaderboard_page and GET_badges above):
\* 200 with the data, or 404 NOT_FOUND when the camp or lesson id matches no
\* row.
route_queries(c, exists) ==
    /\ call[c].pc = "authed"
    /\ call[c].op \in {"camp_lessons", "lesson", "badges", "leaderboard"}
    /\ exists \/ call[c].op \in {"camp_lessons", "lesson"}
    /\ call' = [call EXCEPT ![c] =
          [@ EXCEPT !.pc = "done", !.queries = @ + 1,
                    !.status = IF exists THEN 200 ELSE 404,
                    !.code = IF exists THEN "none" ELSE "NOT_FOUND"]]
    /\ UNCHANGED <<subscriptions, users, user_lessons, user_badges, now, awarded, ticks, commits, fn>>

\* ------------------------------------------------- GET /api/v1/camps
\* camps rows in the order of their "order" column, with the seeded
\* unlock_level of each.
camps ==
    << [order |-> 1, unlock_level |-> 1], [order |-> 2, unlock_level |-> 2],
       [order |-> 3, unlock_level |-> 5], [order |-> 4, unlock_level |-> 3],
       [order |-> 5, unlock_level |-> 8] >>

\* select('current_level').eq('id', user.id).single();
\* userLevel = userData?.current_level || 1
GET_camps_user(c) ==
    /\ call[c].pc = "authed"
    /\ call[c].op = "camps"
    /\ call' = [call EXCEPT ![c] =
          [@ EXCEPT !.pc = "camps_select", !.queries = @ + 1,
                    !.userLevel = IF users[call[c].uid].current_level = 0
                                  THEN 1
                                  ELSE users[call[c].uid].current_level]]
    /\ UNCHANGED <<subscriptions, users, user_lessons, user_badges, now, awarded, ticks, commits, fn>>

\* camps.map(camp => ({...camp,
\*                     is_unlocked: userLevel >= (camp.unlock_level || 1)}))
EnrichedCamps(userLevel) ==
    [i \in DOMAIN camps |->
        [order |-> camps[i].order,
         is_unlocked |-> userLevel >= (IF camps[i].unlock_level = 0
                                       THEN 1 ELSE camps[i].unlock_level)]]

\* select('*').order('order'), and the 200 response.
GET_camps_select(c) ==
    /\ call[c].pc = "camps_select"
    /\ call' = [call EXCEPT ![c] =
          [@ EXCEPT !.pc = "done", !.queries = @ + 1, !.status = 200,
                    !.reads = @ + 1,
                    !.enrichedCamps = EnrichedCamps(call[c].userLevel)]]
    /\ UNCHANGED <<subscriptions, users, user_lessons, user_badges, now, awarded, ticks, commits, fn>>

\* History: the camps the response of request c reports unlocked.
Unlocked(c) ==
    {call[c].enrichedCamps[i].order :
        i \in {j \in DOMAIN call[c].enrichedCamps :
                  call[c].enrichedCamps[j].is_unlocked}}

\* The client that has its response sends the request again with the same
\* session.
GET_camps_again(c) ==
    /\ call[c].op = "camps"
    /\ call[c].pc = "done"
    /\ call[c].status = 200
    /\ call[c].reads < MaxReads
    /\ call' = [call EXCEPT ![c] =
          [@ EXCEPT !.pc = "authed", !.status = 0,
                    !.seen_unlocked = @ \cup Unlocked(c)]]
    /\ UNCHANGED <<subscriptions, users, user_lessons, user_badges, now, awarded, ticks, commits, fn>>

\* --------------------------------------------- POST /api/v1/ai/sparring
\* from('subscriptions').select('plan').eq('user_id', user.id).single():
\* data is the row, or null when there is none (the error of .single() is
\* not read); if (subscription?.plan === 'free') the response is 403.
RequiresProPlan(plan) == plan = "free"

sparring_subscription(c) ==
    /\ call[c].pc = "authed"
    /\ call[c].op = "sparring"
    /\ IF RequiresProPlan(subscriptions[call[c].uid])
       THEN call' = [call EXCEPT ![c] =
               [@ EXCEPT !.pc = "done", !.queries = @ + 1, !.status = 403,
                         !.code = "FORBIDDEN"]]
       ELSE call' = [call EXCEPT ![c] =
               [@ EXCEPT !.pc = "body", !.queries = @ + 1]]
    /\ UNCHANGED <<subscriptions, users, user_lessons, user_badges, now, awarded, ticks, commits, fn>>

\* SparringSchema.parse(body): a ZodError is answered 400 INVALID_INPUT by
\* handleAPIError; otherwise openai.chat.completions.create sends the
\* message, and its reply is the 200 response.
sparring_completion(c, valid) ==
    /\ call[c].pc = "body"
    /\ IF valid
       THEN call' = [call EXCEPT ![c] =
               [@ EXCEPT !.pc = "done", !.forwarded = TRUE, !.status = 200]]
       ELSE call' = [call EXCEPT ![c] =
               [@ EXCEPT !.pc = "done", !.status = 400,
                         !.code = "INVALID_INPUT"]]
    /\ UNCHANGED <<subscriptions, users, user_lessons, user_badges, now, awarded, ticks, commits, fn>>

\* The subscriptions table holds the row of the first account, with any
\* plan, or no row; the other accounts have none.
InitApi ==
    /\ users = [u \in Accounts |-> NewUser(u)]
    /\ user_lessons = [k \in Accounts \X Lessons |-> NoLesson]
    /\ user_badges = <<>>
    /\ now = NumAccounts
    /\ call = [c \in Calls |-> IdleCall]
    /\ \E plan \in Plans \cup {NoPlan} :
          subscriptions = [NoSubscriptions EXCEPT ![1] = plan]
    /\ awarded = [u \in Accounts |-> 0]
    /\ ticks = 0
    /\ commits = 0
    /\ fn = NoFn

\* These handlers write nothing, so the response of one request does not
\* depend on the requests served alongside it: they are taken one after the
\* other.
NextApi ==
    \/ \E c \in Calls, e \in Endpoints, session \in Sessions, u \in Accounts :
           AfterPrevious(c) /\ route_getUser(c, e, session, u)
    \/ \E c \in Calls, exists \in BOOLEAN : route_queries(c, exists)
    \/ \E c \in Calls : GET_camps_user(c)
    \/ \E c \in Calls : GET_camps_select(c)
    \/ \E c \in Calls : sparring_subscription(c)
    \/ \E c \in Calls, valid \in BOOLEAN : sparring_completion(c, valid)

SpecApi == InitApi /\ [][NextApi]_vars

Next ==
    \/ \E c \in Calls, u \in UserIds, amt \in XPAmounts : award_xp_select(c, u, amt)
    \/ \E c \in Calls : award_xp_update(c)
    \/ \E c \in Calls, u \in Accounts, l \in Lessons, sc \in Scores :
           complete_begin(c, u, l, sc)
    \/ \E c \in Calls : complete_upsert(c)
    \/ \E c \in Calls : complete_update_xp(c)
    \/ \E c \in Calls : complete_level(c)
    \/ \E c \in Calls : badge_read(c)
    \/ \E c \in Calls : badge_insert(c)
    \/ \E c \in Calls : badge_insert_fails(c)

Spec == Init /\ [][Next]_vars

\* The same requests with handlers that can stop part-way.
NextFail ==
    \/ \E c \in Calls, u \in UserIds, amt \in XPAmounts : award_xp_select(c, u, amt)
    \/ \E c \in Calls : award_xp_update(c)
    \/ \E c \in Calls, u \in Accounts, l \in Lessons, sc \in Scores :
           complete_begin(c, u, l, sc)
    \/ \E c \in Calls : complete_upsert(c)
    \/ \E c \in Calls : complete_update_xp(c)
    \/ \E c \in Calls : complete_level(c)
    \/ \E c \in Calls : complete_fails(c)
    \/ \E c \in Calls : badge_read(c)
    \/ \E c \in Calls : badge_insert(c)
    \/ \E c \in Calls : badge_insert_fails(c)

SpecFail == Init /\ [][NextFail]_vars

\* The same requests with the clock advancing and the streak route.
NextStreak ==
    \/ \E c \in Calls, u \in Accounts, amt \in XPAmounts : award_xp_select(c, u, amt)
    \/ \E c \in Calls : award_xp_update(c)
    \/ \E c \in Calls, u \in Accounts, l \in Lessons, sc \in Scores :
           complete_begin(c, u, l, sc)
    \/ \E c \in Calls : complete_upsert(c)
    \/ \E c \in Calls : complete_update_xp(c)
    \/ \E c \in Calls : complete_level(c)
    \/ \E c \in Calls : badge_read(c)
    \/ \E c \in Calls : badge_insert(c)
    \/ \E c \in Calls, u \in Accounts : streak_begin(c, u)
    \/ \E c \in Calls : streak_apply(c)
    \/ \E gap \in TickGaps : Tick(gap)

SpecStreak == Init /\ [][NextStreak]_vars

\* Ranking reads against stores that award_xp calls have produced and keep
\* changing.
RankXP == {0, 100, 400}

InitRank ==
    /\ \E xs \in [Accounts -> RankXP] :
          /\ users = [u \in Accounts |->
                [NewUser(u) EXCEPT !.xp = xs[u],
                                   !.current_level = calculate_level(xs[u])]]
          /\ awarded = xs
    /\ user_lessons = [k \in Accounts \X Lessons |-> NoLesson]
    /\ user_badges = <<>>
    /\ now = NumAccounts
    /\ call = [c \in Calls |-> IdleCall]
    /\ subscriptions = NoSubscriptions
    /\ ticks = 0
    /\ commits = 0
    /\ fn = NoFn

NextRank ==
    \/ \E c \in Calls, u \in Accounts, amt \in XPAmounts : award_xp_select(c, u, amt)
    \/ \E c \in Calls : award_xp_update(c)
    \/ \E c \in Calls, u \in Accounts, pg \in PageParams, lim \in LimitParams :
           leaderboard_page(c, u, pg, lim)
    \/ \E c \in Calls, pg \in PageParams, lim \in LimitParams :
           leaderboard_again(c, pg, lim)
    \/ \E c \in Calls : leaderboard_profile(c)
    \/ \E c \in Calls : leaderboard_count(c)
    \/ \E c \in Calls : leaderboard_total(c)
    \/ \E c \in Calls, u \in Accounts : LeaderboardPage(c, u)

SpecRank == InitRank /\ [][NextRank]_vars

\* The camps route, asked again and again, against stores that award_xp
\* calls keep changing.
NextCamps ==
    \/ \E c \in Calls, u \in Accounts, amt \in XPAmounts : award_xp_select(c, u, amt)
    \/ \E c \in Calls : award_xp_update(c)
    \/ \E c \in Calls, session \in Sessions, u \in Accounts :
           route_getUser(c, "camps", session, u)
    \/ \E c \in Calls : GET_camps_user(c)
    \/ \E c \in Calls : GET_camps_select(c)
    \/ \E c \in Calls : GET_camps_again(c)

SpecCamps == InitRank /\ [][NextCamps]_vars

\* =================================================================== claims
Returned(c) == call[c].pc \in {"done", "failed"}
AllReturned == \A c \in Calls : call[c].pc \in {"idle", "done", "failed"}

\* LevelOf(p) = floor(sqrt(p / 100)) + 1: the level L with
\* (L - 1)^2 * 100 <= p < L^2 * 100.
LevelOf(p) ==
    CHOOSE L \in 1..(p + 1) : (L - 1) * (L - 1) * 100 <= p /\ p < L * L * 100

\* C1: once every concurrent completion on an account has returned, the
\* stored points equal the initial points (0) plus the sum of the points
\* awarded by the committed calls: no update is lost.
C1_NoLostUpdate ==
    AllReturned => \A u \in Accounts : users[u].xp = awarded[u]

\* C2: in every observable state, between the writes of an in-flight
\* completion included, the stored level is LevelOf(stored points).
C2_LevelMatchesPoints ==
    \A u \in Accounts : users[u].current_level = LevelOf(users[u].xp)

\* C3: user_badges never holds more than one award for an (account, badge)
\* pair, whatever the interleaving of the completions that qualify for it.
AwardsFor(u, b) ==
    {i \in DOMAIN user_badges :
        user_badges[i].user_id = u /\ user_badges[i].badge_id = b}

C3_AtMostOneAward ==
    \A u \in Accounts, b \in BadgeIds : Cardinality(AwardsFor(u, b)) <= 1

InSeq(x, q) == \E i \in DOMAIN q : q[i] = x

\* Two completions of one account both found the badge unearned and both
\* ran its insert.
C3_Witness ==
    \E c, d \in Calls, b \in BadgeIds :
        /\ c # d
        /\ call[c].uid = call[d].uid
        /\ InSeq(b, call[c].newBadges)
        /\ InSeq(b, call[d].newBadges)
        /\ Cardinality(AwardsFor(call[c].uid, b)) = 1

\* C4: the stored points of an account never decrease from one state to the
\* next, whatever amount a call carries.
C4_PointsNeverDecrease ==
    [][\A u \in Accounts : users'[u].xp >= users[u].xp]_vars

\* C5: an award_xp call with a negative amount is rejected before any write:
\* every step such a call takes ends in the failed position and leaves the
\* users table as it was.
C5_NegativeRejected ==
    [][\A c \in Calls :
          (call'[c].op = "award_xp" /\ call'[c].amount < 0 /\ call'[c].pc # call[c].pc)
              => (call'[c].pc = "failed" /\ users' = users)]_vars

C7_StreakAtLeastOne ==
    \A c \in Calls :
        (call[c].op \in {"award_xp", "complete"} /\ call[c].pc = "done")
            => users[call[c].uid].streak >= 1

\* C8: of two consecutive committed completions or streak updates on one
\* account less than 24 hours apart, the second leaves the streak at the
\* value the first left.
C8_OneIncrementPerWindow ==
    \A c, d \in Calls :
        ( /\ d = c + 1
          /\ call[c].op \in {"complete", "streak"}
          /\ call[d].op \in {"complete", "streak"}
          /\ call[c].pc = "done" /\ call[d].pc = "done"
          /\ call[c].uid = call[d].uid
          /\ call[d].after_prev
          /\ call[d].at - call[c].at < 24 * TicksPerHour )
        => call[d].streak = call[c].streak

\* C9: in one ranking snapshot no two accounts have the same rank, in the
\* entries of a page as in the current_user_rank of the accounts.
OneSnapshot(c) == call[c].pc = "done" /\ call[c].ver_lo = call[c].ver_hi

C9_RankUnique ==
    /\ \A c \in Calls : \A i, j \in DOMAIN call[c].data :
          i # j => call[c].data[i].rank # call[c].data[j].rank
    /\ \A c, d \in Calls :
          ( /\ call[c].op = "leaderboard" /\ call[d].op = "leaderboard"
            /\ OneSnapshot(c) /\ OneSnapshot(d)
            /\ call[c].ver_lo = call[d].ver_lo
            /\ call[c].uid # call[d].uid )
          => call[c].current_user_rank # call[d].current_user_rank

\* C10: the entries of a page are sorted by points descending and, at equal
\* points, by created_at ascending.
C10_PageOrder ==
    \A c \in Calls : \A i, j \in DOMAIN call[c].data :
        i < j =>
          LET a == call[c].data[i]
              b == call[c].data[j]
          IN \/ a.xp > b.xp
             \/ /\ a.xp = b.xp
                /\ users[a.user_id].created_at < users[b.user_id].created_at

\* C11: the current_user_rank of a ranking read taken from one store state
\* is the 1-based position of the account in the full ordering by points
\* descending then created_at ascending, and is the rank of the account's
\* own entry when that entry is on the returned page.
Position(u) ==
    1 + Cardinality({v \in Accounts :
            \/ users[v].xp > users[u].xp
            \/ /\ users[v].xp = users[u].xp
               /\ users[v].created_at < users[u].created_at})

C11_RankIsPosition ==
    \A c \in Calls :
        ( /\ call[c].op \in {"leaderboard", "page"}
          /\ OneSnapshot(c)
          /\ call[c].ver_hi = commits )
        => /\ call[c].current_user_rank = Position(call[c].uid)
           /\ \A i \in DOMAIN call[c].data :
                 call[c].data[i].user_id = call[c].uid
                    => call[c].data[i].rank = call[c].current_user_rank

\* C12: with completion writes interleaved with a ranking read, the response
\* of the read (page entries, current_user_rank and total) is what the same
\* request would produce from some single state of the users table.
SeenXP(c) ==
    {users[u].xp : u \in Accounts}
        \cup {call[c].data[i].xp : i \in DOMAIN call[c].data}
        \cup {call[c].profile_xp}

ProducedFrom(c, xs) ==
    /\ \E p \in [1..NumAccounts -> Accounts] :
          /\ \A i, j \in 1..NumAccounts : i # j => p[i] # p[j]
          /\ \A i, j \in 1..NumAccounts : i < j => xs[p[i]] >= xs[p[j]]
          /\ LET rows == Range(p, (call[c].page - 1) * call[c].limit,
                               call[c].page * call[c].limit - 1)
             IN /\ Len(rows) = Len(call[c].data)
                /\ \A i \in DOMAIN rows :
                      /\ call[c].data[i].user_id = rows[i]
                      /\ call[c].data[i].xp = xs[rows[i]]
    /\ call[c].current_user_rank =
          Cardinality({v \in Accounts : xs[v] > xs[call[c].uid]}) + 1
    /\ call[c].total = Cardinality(Accounts)

C12_ReadIsOneSnapshot ==
    \A c \in Calls :
        (call[c].op = "leaderboard" /\ call[c].pc = "done")
            => \E xs \in [Accounts -> SeenXP(c)] : ProducedFrom(c, xs)

\* C13: an award_xp call for an id that names no account fails with
\* AccountNotFound: it never returns a result record, and none of its steps
\* writes to the store.
C13_UnknownAccountFails ==
    [][\A c \in Calls :
          (call'[c].op = "award_xp" /\ call'[c].uid \notin Accounts
              /\ call'[c].pc # call[c].pc)
          => /\ call'[c].pc \in {"update", "failed"}
             /\ call'[c].rows = 0
             /\ users' = users /\ user_badges' = user_badges]_vars

\* C14: when the calls on the store run one after the other and no badge
\* insert is refused, each badge is returned in newBadges by at most one
\* completion of an account, the first one whose post-update stats meet its
\* criterion, while every call adds its own points to the account.
Sequential == \A c \in Calls : call[c].pc # "idle" => call[c].after_prev
NoRefusal == \A c \in Calls : call[c].failed = {}
Completion(c) == call[c].op = "complete" /\ call[c].pc = "done"

C15_DuplicateInsertIsSuccess ==
    [][\A c \in Calls :
          ( /\ call[c].pc = "insert"
            /\ call'[c] # call[c]
            /\ HasAward(call[c].uid, Head(call[c].pending)) )
          => /\ user_badges' = user_badges
             /\ users' = users
             /\ call'[c].pc \in {"insert", "done"}
             /\ InSeq(Head(call[c].pending), call'[c].newBadges)]_vars

\* Two completions of one account have returned, both ran the accepted
\* insert of the same badge, and the account holds the one award and its
\* points.
C15_Witness ==
    \E c, d \in Calls, b \in BadgeIds :
        /\ c < d
        /\ Completion(c) /\ Completion(d)
        /\ call[c].uid = call[d].uid
        /\ InSeq(b, call[c].newBadges) /\ b \notin call[c].failed
        /\ InSeq(b, call[d].newBadges) /\ b \notin call[d].failed
        /\ HasAward(call[c].uid, b)
        /\ users[call[c].uid].xp > 0

\* C16: whenever no completion is in progress for an account that has had
\* at least one completion processed, every badge of the catalog whose
\* criterion the account's current stats satisfy has an award in
\* user_badges.
Threshold(criteria) ==
    IF criteria.count # Absent THEN criteria.count ELSE criteria.value

CriterionHolds(criteria, u) ==
    CASE criteria.type = "lessons_completed" ->
            Cardinality({l \in Lessons : user_lessons[<<u, l>>].completed})
                >= Threshold(criteria)
      [] criteria.type = "streak" -> users[u].streak >= Threshold(criteria)
      [] criteria.type = "xp" -> users[u].xp >= Threshold(criteria)
      [] OTHER -> FALSE

InProgress(u) ==
    \E c \in Calls :
        call[c].uid = u /\ call[c].pc \notin {"idle", "done", "failed"}

Processed(u) ==
    \E c \in Calls :
        call[c].uid = u /\ call[c].op \in {"award_xp", "complete"} /\ call[c].pc = "done"

C16_EarnedBadgesAwarded ==
    \A u \in Accounts :
        (~InProgress(u) /\ Processed(u))
            => \A k \in DOMAIN badges :
                  CriterionHolds(badges[k].criteria, u) => HasAward(u, badges[k].id)

\* C17: a refused badge insert leaves the committed points of the account
\* as they are, and once the next completion of the account has run after
\* it with the criterion still satisfied and its own insert accepted, the
\* award is in user_badges.
Refused(c, k) == badges[k].id \in call[c].failed

HealedAfterRefusal ==
    \A c, d \in Calls, k \in DOMAIN badges :
        ( /\ c < d
          /\ Completion(c) /\ Completion(d)
          /\ call[c].uid = call[d].uid
          /\ call[d].after_prev
          /\ \A e \in Calls : e > d => call[e].pc = "idle"
          /\ Refused(c, k) /\ ~Refused(d, k)
          /\ CriterionHolds(badges[k].criteria, call[d].uid) )
        => HasAward(call[d].uid, badges[k].id)

C18_SatisfiedIffThreshold ==
    fn.name = "checkBadgeCriteria"
        => (fn.result <=> (fn.userValue >= fn.criteriaValue))

\* C19: calculateLevel(p) and calculate_level(p) are L exactly when
\* xpForLevel(L) <= p < xpForLevel(L + 1); the level of 0 points is 1, the
\* level of xpForLevel(L) points is L, and the level does not decrease when
\* the points grow.
C19_LevelBrackets ==
    /\ (fn.name = "calculateLevel" /\ fn.xp >= 0) =>
          /\ \A L \in 1..(MaxLevel + 1) :
                /\ (fn.result = L)
                      <=> (xpForLevel(L) <= fn.xp /\ fn.xp < xpForLevel(L + 1))
                /\ (fn.sql_result = L)
                      <=> (xpForLevel(L) <= fn.xp /\ fn.xp < xpForLevel(L + 1))
          /\ fn.result \in 1..(MaxLevel + 1)
          /\ fn.xp = 0 => fn.result = 1
          /\ fn.result <= calculateLevel(fn.xp + 1)
          /\ fn.sql_result <= calculate_level(fn.xp + 1)
    /\ fn.name = "xpForLevel" =>
          /\ calculateLevel(fn.result) = fn.level
          /\ calculate_level(fn.result) = fn.level

\* calculateLevel ran on the last point count of level 3 (xpForLevel(4) - 1).
C19_Witness ==
    /\ fn.name = "calculateLevel"
    /\ fn.xp = xpForLevel(4) - 1
    /\ fn.result = 3
    /\ fn.sql_result = 3

\* C20: xpForLevel is strictly increasing over the levels from 1 on, and so
\* are its increments from one level to the next.
C20_ThresholdsGrow ==
    fn.name = "xpForLevel" =>
        /\ fn.result < fn.result1
        /\ fn.result1 < fn.result2
        /\ fn.result1 - fn.result < fn.result2 - fn.result1

\* xpForLevel ran on level 1: 0, then 100 and 400 for levels 2 and 3.
C20_Witness ==
    /\ fn.name = "xpForLevel"
    /\ fn.level = 1
    /\ fn.result = 0
    /\ fn.result1 = 100
    /\ fn.result2 = 400

\* C21: calculateLevel and calculate_level reject a negative point count
\* with an error; neither returns a level for it.
C21_NegativeRejected ==
    (fn.name = "calculateLevel" /\ fn.xp < 0)
        => (fn.raised /\ fn.sql_raised)

\* C22: a step of a completion for one account leaves the users row, the
\* lesson rows and the badge awards of every other account as they are, and
\* a completion that has started can always take its next step, whatever
\* the calls for other accounts are doing.
AwardRows(tbl, u) == {tbl[i] : i \in {j \in DOMAIN tbl : tbl[j].user_id = u}}

OthersUntouched(c) ==
    \A u \in Accounts \ {call'[c].uid} :
        /\ users'[u] = users[u]
        /\ AwardRows(user_badges', u) = AwardRows(user_badges, u)
        /\ \A l \in Lessons : user_lessons'[<<u, l>>] = user_lessons[<<u, l>>]

StepOf(c) ==
    \/ award_xp_update(c)
    \/ complete_upsert(c)
    \/ complete_update_xp(c)
    \/ complete_level(c)
    \/ badge_read(c)
    \/ badge_insert(c)

C22_OtherAccountsUntouched ==
    /\ [][\A c \in Calls : call'[c] # call[c] => OthersUntouched(c)]_vars
    /\ [](\A c \in Calls :
             call[c].pc \notin {"idle", "done", "failed"} => ENABLED StepOf(c))

\* Completions of two different accounts overlapped and both committed
\* their points.
C22_Witness ==
    /\ call[1].pc = "done" /\ call[2].pc = "done"
    /\ call[1].uid \in Accounts /\ call[2].uid \in Accounts
    /\ call[1].uid # call[2].uid
    /\ ~call[2].after_prev
    /\ users[call[1].uid].xp = call[1].amount
    /\ users[call[2].uid].xp = call[2].amount
    /\ call[1].amount > 0 /\ call[2].amount > 0

\* C23: after a completion that failed, being the only call made for its
\* account, the account's points, level, last_activity and completed
\* lessons either all carry the values of before the call or all carry the
\* updated values.
C23_FailedCallAllOrNothing ==
    \A c \in Calls :
        ( /\ call[c].pc = "failed"
          /\ call[c].uid \in Accounts
          /\ \A d \in Calls \ {c} : call[d].uid # call[c].uid )
        => LET u == call[c].uid
               done == {l \in Lessons : user_lessons[<<u, l>>].completed}
           IN \/ (users[u] = NewUser(u) /\ done = {})
              \/ /\ users[u].xp = call[c].amount
                 /\ users[u].current_level = LevelOf(call[c].amount)
                 /\ users[u].last_activity = call[c].at
                 /\ done = {call[c].lesson}

\* C24: the xp from which a ranking read computes the viewer's rank is
\* never lower than an xp that an earlier read of the same client showed
\* for the viewer.
C24_OwnPointsNeverGoBack ==
    \A c \in Calls :
        ( /\ call[c].op = "leaderboard"
          /\ call[c].pc \in {"lb_count", "lb_total", "done"}
          /\ call[c].seen_xp # Absent )
        => call[c].profile_xp >= call[c].seen_xp

\* C25: the list a badges request returns holds every badge of the catalog
\* exactly once; an entry is earned exactly when user_badges holds an award
\* of that badge for the viewer, and its earned_at is the instant of that
\* award, absent otherwise, whatever the awards of the other accounts.
AwardInstant(u, b) ==
    user_badges[CHOOSE i \in DOMAIN user_badges :
                   user_badges[i].user_id = u /\ user_badges[i].badge_id = b].earned_at

ListIsRight(u, list) ==
    /\ Len(list) = Len(badges)
    /\ \A b \in BadgeIds : Cardinality({i \in DOMAIN list : list[i].id = b}) = 1
    /\ \A i \in DOMAIN list :
          /\ list[i].earned <=> HasAward(u, list[i].id)
          /\ list[i].earned_at = IF HasAward(u, list[i].id)
                                 THEN AwardInstant(u, list[i].id)
                                 ELSE Absent

C25_ListBadges ==
    [][\A c \in Calls :
          (call[c].pc = "ub_select" /\ call'[c].pc = "done")
              => ListIsRight(call[c].uid, call'[c].badge_list)]_vars

\* A request of an account that holds an award of one badge and none of
\* another, while a different account holds awards of its own, has its list.
C25_Witness ==
    \E c \in Calls, v \in Accounts :
        /\ call[c].op = "badges"
        /\ call[c].pc = "done"
        /\ v # call[c].uid
        /\ HasAward(v, 2)
        /\ \E i, j \in DOMAIN call[c].badge_list :
              /\ call[c].badge_list[i].earned
              /\ call[c].badge_list[i].earned_at = AwardInstant(call[c].uid, call[c].badge_list[i].id)
              /\ ~call[c].badge_list[j].earned
              /\ call[c].badge_list[j].earned_at = Absent
              /\ HasAward(v, call[c].badge_list[j].id)

C27_UnpaidNeverForwarded ==
    \A c \in Calls :
        ( /\ call[c].op = "sparring"
          /\ call[c].session = "valid"
          /\ subscriptions[call[c].uid] \notin {"pro", "gym_edition"} )
        => /\ ~call[c].forwarded
           /\ call[c].pc = "done" => (call[c].status = 403 /\ call[c].code = "FORBIDDEN")

\* C28: a call of award_xp for an existing account reads the stored points
\* and level when it starts; when it commits, the points it reports are
\* those points plus the amount, the level it reports is LevelOf of the
\* reported points, leveled_up is true exactly when the reported level is
\* above the level read, and the account's row holds the reported points
\* and level.
C28_ResultIsWhatWasStored ==
    [][\A c \in Calls :
          /\ ( /\ call[c].pc = "idle"
               /\ call'[c].op = "award_xp"
               /\ call'[c].found )
             => /\ call'[c].v_old_xp = users[call'[c].uid].xp
                /\ call'[c].v_old_level = users[call'[c].uid].current_level
          /\ ( /\ call[c].op = "award_xp"
               /\ call[c].pc = "update"
               /\ call[c].found
               /\ call'[c].pc = "done" )
             => /\ call'[c].rows = 1
                /\ call'[c].v_new_xp = call[c].v_old_xp + call[c].amount
                /\ call'[c].v_new_level = LevelOf(call'[c].v_new_xp)
                /\ call'[c].leveled_up
                      <=> (call'[c].v_new_level > call[c].v_old_level)
                /\ users'[call[c].uid].xp = call'[c].v_new_xp
                /\ users'[call[c].uid].current_level = call'[c].v_new_level
      ]_vars

C28_Witness ==
    \E c, d \in Calls :
        /\ call[c].op = "award_xp" /\ call[c].pc = "done" /\ call[c].found
        /\ call[c].leveled_up
        /\ call[c].v_new_xp = 100 /\ call[c].v_new_level = 2
        /\ call[d].op = "award_xp" /\ call[d].pc = "done" /\ call[d].found
        /\ ~call[d].leveled_up
        /\ call[d].v_new_level = call[d].v_old_level

\* C29: when a client has asked for pages 1, 2, ... in turn with one limit,
\* as far as the last account, and the store did not change meanwhile, the
\* entries of the pages taken together hold every account exactly once,
\* the i-th of them carries rank i, and the limit used is at most 100.
C29_PagesCoverEveryAccountOnce ==
    \A c \in Calls :
        ( /\ call[c].op = "leaderboard"
          /\ call[c].in_turn
          /\ call[c].reads * call[c].limit >= NumAccounts )
        => /\ call[c].limit <= MaxLimit
           /\ Len(call[c].shown) = NumAccounts
           /\ \A u \in Accounts :
                 \E i \in DOMAIN call[c].shown : call[c].shown[i].user_id = u
           /\ \A i \in DOMAIN call[c].shown : call[c].shown[i].rank = i

\* C30: every camp that an earlier response of GET /api/v1/camps reported
\* unlocked to a client is reported unlocked by each later response to that
\* client, whatever award_xp calls were made in between.
C30_UnlockedStaysUnlocked ==
    \A c \in Calls :
        (call[c].op = "camps" /\ call[c].pc = "done" /\ call[c].status = 200)
        => call[c].seen_unlocked \subseteq Unlocked(c)

====
